---- MODULE Spec2Model ----
(***************************************************************************)
(* Model of onnx_validate_furiosa_runtime.py: the streaming accuracy and   *)
(* latency evaluation loop of main() and the pure function accuracy_np.    *)
(*                                                                         *)
(* Floating-point values are modelled as exact rationals [num, den] in     *)
(* lowest terms; printing is modelled by the values handed to format(),    *)
(* not by the rounded text.  Class indices are 0-based as in numpy; row r  *)
(* of a matrix is output[r], the score of class c is output[r][c + 1].     *)
(***************************************************************************)
EXTENDS Integers, Sequences, FiniteSets, TLC

VARIABLES
    args,               \* parsed arguments: model_input, print_freq
    loader_len,         \* len(loader): the number of batches the loader holds
    pc,                 \* position of main()
    error,              \* the exception that ended the run, "none" if none
    graph,              \* local `graph` of main(): unbound, bytes or path
    session,            \* "none", "open" (inside the with block) or "closed"
    acquired,           \* number of times the session context was entered
    released,           \* number of times the session context was exited
    infer_calls,        \* number of session.run calls started
    infer_unheld,       \* number of session.run calls started while not open
    yielded,            \* enumerate(loader): batches yielded so far
    i,                  \* loop variable i, -1 while unbound
    input,              \* current batch input, as its size(0)
    target,             \* current batch labels
    output,             \* scores returned by session.run for the batch
    prec,               \* (prec1, prec5) of the current batch
    clock,              \* the time source read by time.time()/perf_counter_ns()
    start,              \* local `start`
    end,                \* local `end`
    elapsed_time,       \* local `elapsed_time`
    total_predictions,  \* local `total_predictions`
    batch_time,         \* AverageMeter
    top1,               \* AverageMeter
    top5,               \* AverageMeter
    samples_seen,       \* samples of the batches whose meters were updated
    hits,               \* of those, [h1, h5]: samples whose label is the best / among the 5 best
    out,                \* printed lines, in order: [kind, i]
    line,               \* values handed to format() for the last progress line
    latency             \* local `latency`, and the value printed in ms

vars == <<args, loader_len, pc, error, graph, session, acquired, released,
          infer_calls, infer_unheld, yielded, i, input, target, output, prec,
          clock, start, end, elapsed_time, total_predictions, batch_time,
          top1, top5, samples_seen, hits, out, line, latency>>

(***************************************************************************)
(* Bounds of the model.                                                    *)
(***************************************************************************)
MaxBatches == 2      \* batches a loader holds at most
MaxClasses == 6      \* classes of a score matrix given to accuracy_np

RowCounts == {1, 2}      \* rows of a score matrix given to accuracy_np
BatchSizes == {1, 2}     \* samples in a batch
LoadTicks == {1}         \* time a loader iteration may take
InferTicks == {1, 2}     \* time a session.run call may take

(***************************************************************************)
(* Exact arithmetic standing for Python floats.                            *)
(***************************************************************************)
RECURSIVE GCD(_, _)
GCD(a, b) == IF b = 0 THEN a ELSE GCD(b, a % b)

Frac(n, d) == LET g == GCD(n, d) IN [num |-> n \div g, den |-> d \div g]

Zero == Frac(0, 1)

RAdd(x, y) == Frac(x.num * y.den + y.num * x.den, x.den * y.den)

RScale(x, k) == Frac(x.num * k, x.den)

RDivInt(x, k) == Frac(x.num, x.den * k)

REq(x, n, d) == x.num * d = n * x.den

(***************************************************************************)
(* accuracy_np                                                             *)
(***************************************************************************)
\* np.argsort of one row: class indices by ascending score (ties by index)
ArgSort(row) ==
    LET C == Len(row)
        Before(d, c) == row[d + 1] < row[c + 1] \/ (row[d + 1] = row[c + 1] /\ d < c)
    IN  [k \in 1..C |->
            CHOOSE c \in 0..(C - 1) :
                Cardinality({d \in 0..(C - 1) : Before(d, c)}) = k - 1]

\* s[::-1]
Reversed(s) == [k \in 1..Len(s) |-> s[Len(s) + 1 - k]]

\* s[:k]
Prefix(s, k) == SubSeq(s, 1, IF k < Len(s) THEN k ELSE Len(s))

\* np.argsort(output, axis=1)[:, ::-1]
MaxIndices(o) == [r \in 1..Len(o) |-> Reversed(ArgSort(o[r]))]

RECURSIVE SumSeq(_)
SumSeq(s) == IF s = <<>> THEN 0 ELSE s[1] + SumSeq(Tail(s))

\* np.equal(a, b) as 0/1
Equal(a, b) == IF a = b THEN 1 ELSE 0

\* variant: the first 4 columns of max_indices instead of the first 5
accuracy_np_top4(o, t) ==
    LET max_indices == MaxIndices(o)
        N == Len(o)
        row5(r) == LET p == Prefix(max_indices[r], 4)
                   IN  SumSeq([k \in 1..Len(p) |-> Equal(p[k], t[r])])
    IN  [top1 |-> Frac(100 * SumSeq([r \in 1..N |-> Equal(max_indices[r][1], t[r])]), N),
         top5 |-> Frac(100 * SumSeq([r \in 1..N |-> row5(r)]), N)]

\* accuracy_np(output, target): (top1, top5)
accuracy_np(o, t) ==
    LET max_indices == MaxIndices(o)
        N == Len(o)
        row5(r) == LET p == Prefix(max_indices[r], 5)
                   IN  SumSeq([k \in 1..Len(p) |-> Equal(p[k], t[r])])
    IN  [top1 |-> Frac(100 * SumSeq([r \in 1..N |-> Equal(max_indices[r][1], t[r])]), N),
         top5 |-> Frac(100 * SumSeq([r \in 1..N |-> row5(r)]), N)]

(***************************************************************************)
(* Reference notions the properties are stated with: what "best class"     *)
(* and "among the 5 best classes" mean for one row of scores.              *)
(***************************************************************************)
IsBest(row, label) == \A c \in 0..(Len(row) - 1) : row[c + 1] <= row[label + 1]

InTop5(row, label) ==
    Cardinality({c \in 0..(Len(row) - 1) : row[c + 1] > row[label + 1]}) < 5

CountRows(o, t, P(_, _)) == Cardinality({r \in 1..Len(o) : P(o[r], t[r])})

(***************************************************************************)
(* AverageMeter (utils.py): val, sum, count, avg = sum / count.            *)
(***************************************************************************)
AverageMeter == [val |-> Zero, sum |-> Zero, count |-> 0, avg |-> Zero]

Update(m, v, n) ==
    LET s == RAdd(m.sum, RScale(v, n))
        c == m.count + n
    IN  [val |-> v, sum |-> s, count |-> c, avg |-> RDivInt(s, c)]

(***************************************************************************)
(* Inputs of a run.                                                        *)
(***************************************************************************)
EndsWith(s, suffix) ==
    /\ Len(s) >= Len(suffix)
    /\ SubSeq(s, Len(s) - Len(suffix) + 1, Len(s)) = suffix

DotDfg == <<".", "d", "f", "g">>
DotOnnx == <<".", "o", "n", "n", "x">>

\* --model-input values: the default "", "m.dfg", "m.onnx", "m.pb"
ModelInputs == {<<>>, <<"m">> \o DotDfg, <<"m">> \o DotOnnx, <<"m", ".", "p", "b">>}

\* --print-freq values
PrintFreqs == {0, 1, 2}

\* rows of scores a session may return in a run, and the labels of the data
\* (class 0 is the best, the second best, the worst of 6 classes)
InferRows == {<<6, 5, 4, 3, 2, 1>>, <<5, 6, 4, 3, 2, 1>>, <<1, 2, 3, 4, 5, 6>>}
Labels == {0}

NoGraph == [kind |-> "unbound", path |-> <<>>]
NoPrec == [top1 |-> Zero, top5 |-> Zero]
NoLine == [i |-> -1, len |-> 0, batch_time |-> AverageMeter, rate_avg |-> Zero,
           ms_avg |-> Zero, top1 |-> AverageMeter, top5 |-> AverageMeter]
NoLatency == [ns |-> Zero, ms |-> Zero]

\* main() up to line 124: arguments parsed, loader and meters built, end taken
Init ==
    /\ args \in [model_input : ModelInputs, print_freq : PrintFreqs]
    /\ loader_len \in 0..MaxBatches
    /\ pc = "load_graph"
    /\ error = "none"
    /\ graph = NoGraph
    /\ session = "none"
    /\ acquired = 0
    /\ released = 0
    /\ infer_calls = 0
    /\ infer_unheld = 0
    /\ yielded = 0
    /\ i = -1
    /\ input = 0
    /\ target = <<>>
    /\ output = <<>>
    /\ prec = NoPrec
    /\ clock = 0
    /\ start = 0
    /\ end = 0
    /\ elapsed_time = 0
    /\ total_predictions = 0
    /\ batch_time = AverageMeter
    /\ top1 = AverageMeter
    /\ top5 = AverageMeter
    /\ samples_seen = 0
    /\ hits = [h1 |-> 0, h5 |-> 0]
    /\ out = <<>>
    /\ line = NoLine
    /\ latency = NoLatency

(***************************************************************************)
(* Exceptions and the scope of the session.                                *)
(***************************************************************************)
\* an exception raised outside the with block ends main()
Raise(e) ==
    /\ error' = e
    /\ pc' = "failed"

\* variant: a release that an exception in flight skips
WithExitNoFinally(exc) ==
    IF exc
    THEN UNCHANGED <<session, released>>
    ELSE /\ session' = "closed"
         /\ released' = released + 1

\* __exit__ of the session context, with or without an exception in flight
WithExit(exc) ==
    /\ session' = "closed"
    /\ released' = released + 1

\* variant: an __exit__ that suppresses the exception, so main() goes on
RaiseInWithSuppressed(e) ==
    /\ WithExit(TRUE)
    /\ error' = e
    /\ pc' = "summary"

\* an exception raised inside the with block: __exit__ runs, then it ends main()
RaiseInWith(e) ==
    /\ WithExit(TRUE)
    /\ Raise(e)

(***************************************************************************)
(* main(), lines 126-133                                                   *)
(***************************************************************************)
LoadGraph ==
    /\ pc = "load_graph"
    /\ LET read == IF EndsWith(args.model_input, DotDfg)
                   THEN [kind |-> "bytes", path |-> <<>>]
                   ELSE graph
       IN  graph' = IF EndsWith(args.model_input, DotOnnx)
                    THEN [kind |-> "path", path |-> args.model_input]
                    ELSE read
    /\ total_predictions' = 0
    /\ elapsed_time' = 0
    /\ pc' = "create"
    /\ UNCHANGED <<args, loader_len, error, session, acquired, released, infer_calls,
                   infer_unheld, yielded, i, input, target, output, prec, clock,
                   start, end, batch_time, top1, top5, samples_seen, hits, out,
                   line, latency>>

\* open() of a .dfg path that cannot be read
LoadGraphOpenFail ==
    /\ pc = "load_graph"
    /\ EndsWith(args.model_input, DotDfg)
    /\ Raise("OSError")
    /\ UNCHANGED <<args, loader_len, graph, session, acquired, released, infer_calls,
                   infer_unheld, yielded, i, input, target, output, prec, clock,
                   start, end, elapsed_time, total_predictions, batch_time, top1,
                   top5, samples_seen, hits, out, line, latency>>

(***************************************************************************)
(* main(), line 134                                                        *)
(***************************************************************************)
CreateSession ==
    /\ pc = "create"
    /\ graph.kind # "unbound"
    /\ session' = "open"
    /\ acquired' = acquired + 1
    /\ pc' = "next"
    /\ UNCHANGED <<args, loader_len, error, graph, released, infer_calls,
                   infer_unheld, yielded, i, input, target, output, prec, clock,
                   start, end, elapsed_time, total_predictions, batch_time, top1,
                   top5, samples_seen, hits, out, line, latency>>

\* the runtime rejects the model
CreateSessionFail ==
    /\ pc = "create"
    /\ graph.kind # "unbound"
    /\ Raise("SessionError")
    /\ UNCHANGED <<args, loader_len, graph, session, acquired, released, infer_calls,
                   infer_unheld, yielded, i, input, target, output, prec, clock,
                   start, end, elapsed_time, total_predictions, batch_time, top1,
                   top5, samples_seen, hits, out, line, latency>>

\* `graph` was never assigned: evaluating the argument of create() faults
CreateSessionUnbound ==
    /\ pc = "create"
    /\ graph.kind = "unbound"
    /\ Raise("UnboundLocalError")
    /\ UNCHANGED <<args, loader_len, graph, session, acquired, released, infer_calls,
                   infer_unheld, yielded, i, input, target, output, prec, clock,
                   start, end, elapsed_time, total_predictions, batch_time, top1,
                   top5, samples_seen, hits, out, line, latency>>

(***************************************************************************)
(* main(), line 136: enumerate(loader)                                     *)
(***************************************************************************)
LoaderNext ==
    /\ pc = "next"
    /\ yielded < loader_len
    /\ \E n \in BatchSizes, dt \in LoadTicks :
        \E t \in [1..n -> Labels] :
            /\ input' = n
            /\ target' = t
            /\ clock' = clock + dt
    /\ i' = yielded
    /\ yielded' = yielded + 1
    /\ pc' = "infer"
    /\ UNCHANGED <<args, loader_len, error, graph, session, acquired, released,
                   infer_calls, infer_unheld, output, prec, start, end,
                   elapsed_time, total_predictions, batch_time, top1, top5,
                   samples_seen, hits, out, line, latency>>

\* the loader is exhausted: the for loop and the with block end
LoaderExhausted ==
    /\ pc = "next"
    /\ yielded = loader_len
    /\ WithExit(FALSE)
    /\ pc' = "summary"
    /\ UNCHANGED <<args, loader_len, error, graph, acquired, infer_calls,
                   infer_unheld, yielded, i, input, target, output, prec, clock,
                   start, end, elapsed_time, total_predictions, batch_time, top1,
                   top5, samples_seen, hits, out, line, latency>>

\* the loader raises while producing the next batch
LoaderFail ==
    /\ pc = "next"
    /\ yielded < loader_len
    /\ RaiseInWith("LoaderError")
    /\ UNCHANGED <<args, loader_len, graph, acquired, infer_calls, infer_unheld,
                   yielded, i, input, target, output, prec, clock, start, end,
                   elapsed_time, total_predictions, batch_time, top1, top5,
                   samples_seen, hits, out, line, latency>>

(***************************************************************************)
(* main(), lines 138-141: the timed inference call                         *)
(***************************************************************************)
\* variant: the timer starts where the previous iteration ended
perf_start_stale == end

\* start = time.perf_counter_ns()
perf_start == clock

Infer ==
    /\ pc = "infer"
    /\ start' = perf_start
    /\ infer_calls' = infer_calls + 1
    /\ infer_unheld' = infer_unheld + (IF session = "open" THEN 0 ELSE 1)
    /\ \E d \in InferTicks :
        /\ clock' = clock + d
        /\ elapsed_time' = elapsed_time + (clock' - start')
    /\ output' \in [1..input -> InferRows]
    /\ pc' = "accuracy"
    /\ UNCHANGED <<args, loader_len, error, graph, session, acquired, released,
                   yielded, i, input, target, prec, end, total_predictions,
                   batch_time, top1, top5, samples_seen, hits, out, line, latency>>

\* session.run raises
InferFail ==
    /\ pc = "infer"
    /\ start' = perf_start
    /\ infer_calls' = infer_calls + 1
    /\ infer_unheld' = infer_unheld + (IF session = "open" THEN 0 ELSE 1)
    /\ RaiseInWith("InferError")
    /\ UNCHANGED <<args, loader_len, graph, acquired, yielded, i, input, target,
                   output, prec, clock, end, elapsed_time, total_predictions, batch_time,
                   top1, top5, samples_seen, hits, out, line, latency>>

(***************************************************************************)
(* main(), line 144                                                        *)
(***************************************************************************)
Accuracy ==
    /\ pc = "accuracy"
    /\ prec' = accuracy_np(output, target)
    /\ pc' = "record"
    /\ UNCHANGED <<args, loader_len, error, graph, session, acquired, released,
                   infer_calls, infer_unheld, yielded, i, input, target, output,
                   clock, start, end, elapsed_time, total_predictions, batch_time,
                   top1, top5, samples_seen, hits, out, line, latency>>

\* accuracy_np raises (an output the labels cannot be compared with)
AccuracyFail ==
    /\ pc = "accuracy"
    /\ RaiseInWith("AccuracyError")
    /\ UNCHANGED <<args, loader_len, graph, acquired, infer_calls, infer_unheld,
                   yielded, i, input, target, output, prec, clock, start, end,
                   elapsed_time, total_predictions, batch_time, top1, top5,
                   samples_seen, hits, out, line, latency>>

(***************************************************************************)
(* main(), lines 145-166: meters, counters and the progress line           *)
(***************************************************************************)
\* variant: weight 1 instead of the batch's sample count
Top1UpdateUnweighted == Update(top1, prec.top1, 1)

\* top1.update(prec1.item(), input.size(0))
Top1Update == Update(top1, prec.top1, input)

\* top5.update(prec5.item(), input.size(0))
Top5Update == Update(top5, prec.top5, input)

\* batch_time.update(time.time() - end)
BatchTimeUpdate == Update(batch_time, Frac(clock - end, 1), 1)

\* variant: one per sample
CountSamples == total_predictions + input

\* total_predictions += 1
CountPrediction == total_predictions + 1

\* variant: the count of batches done, not the index, is tested
ShouldPrintAfter == (i + 1) % args.print_freq = 0

\* i % args.print_freq == 0
ShouldPrint == i % args.print_freq = 0

\* the arguments of format(): rate_avg and ms_avg are computed from the
\* meters as already updated for this batch
ProgressLine(bt, t1, t5) ==
    [i |-> i, len |-> loader_len, batch_time |-> bt,
     rate_avg |-> Frac(input * bt.avg.den, bt.avg.num),
     ms_avg |-> Frac(100 * bt.avg.num, bt.avg.den * input),
     top1 |-> t1, top5 |-> t5]

\* lines 145-151, shared by the two ways line 152 can go
Measure ==
    /\ top1' = Top1Update
    /\ top5' = Top5Update
    /\ batch_time' = BatchTimeUpdate
    /\ end' = clock
    /\ total_predictions' = CountPrediction
    /\ samples_seen' = samples_seen + input
    /\ hits' = [h1 |-> hits.h1 + CountRows(output, target, IsBest),
                h5 |-> hits.h5 + CountRows(output, target, InTop5)]

Record ==
    /\ pc = "record"
    /\ args.print_freq # 0
    /\ Measure
    /\ IF ShouldPrint
       THEN /\ out' = Append(out, [kind |-> "progress", i |-> i])
            /\ line' = ProgressLine(batch_time', top1', top5')
       ELSE UNCHANGED <<out, line>>
    /\ pc' = "next"
    /\ UNCHANGED <<args, loader_len, error, graph, session, acquired, released,
                   infer_calls, infer_unheld, yielded, i, input, target, output,
                   prec, clock, start, elapsed_time, latency>>

\* --print-freq 0: i % 0 faults after the batch was measured
RecordModFault ==
    /\ pc = "record"
    /\ args.print_freq = 0
    /\ Measure
    /\ RaiseInWith("ZeroDivisionError")
    /\ UNCHANGED <<args, loader_len, graph, acquired, infer_calls, infer_unheld,
                   yielded, i, input, target, output, prec, clock, start,
                   elapsed_time, out, line, latency>>

(***************************************************************************)
(* main(), lines 168-174: the summary and the average latency              *)
(***************************************************************************)
Summary ==
    /\ pc = "summary"
    /\ out' = Append(out, [kind |-> "summary", i |-> i])
    /\ pc' = "latency"
    /\ UNCHANGED <<args, loader_len, error, graph, session, acquired, released,
                   infer_calls, infer_unheld, yielded, i, input, target, output,
                   prec, clock, start, end, elapsed_time, total_predictions,
                   batch_time, top1, top5, samples_seen, hits, line, latency>>

Latency ==
    /\ pc = "latency"
    /\ total_predictions # 0
    /\ LET l == Frac(elapsed_time, total_predictions)
       IN  latency' = [ns |-> l, ms |-> RDivInt(l, 1000000)]
    /\ out' = Append(out, [kind |-> "latency", i |-> i])
    /\ pc' = "done"
    /\ UNCHANGED <<args, loader_len, error, graph, session, acquired, released,
                   infer_calls, infer_unheld, yielded, i, input, target, output,
                   prec, clock, start, end, elapsed_time, total_predictions,
                   batch_time, top1, top5, samples_seen, hits, line>>

\* elapsed_time / 0
LatencyFault ==
    /\ pc = "latency"
    /\ total_predictions = 0
    /\ Raise("ZeroDivisionError")
    /\ UNCHANGED <<args, loader_len, graph, session, acquired, released,
                   infer_calls, infer_unheld, yielded, i, input, target, output,
                   prec, clock, start, end, elapsed_time, total_predictions,
                   batch_time, top1, top5, samples_seen, hits, out, line, latency>>

Next ==
    \/ LoadGraph
    \/ LoadGraphOpenFail
    \/ CreateSession
    \/ CreateSessionFail
    \/ CreateSessionUnbound
    \/ LoaderNext
    \/ LoaderExhausted
    \/ LoaderFail
    \/ Infer
    \/ InferFail
    \/ Accuracy
    \/ AccuracyFail
    \/ Record
    \/ RecordModFault
    \/ Summary
    \/ Latency
    \/ LatencyFault

Spec == Init /\ [][Next]_vars

(***************************************************************************)
(* accuracy_np on its own: a call on any score matrix of one or two rows   *)
(* and up to MaxClasses classes whose rows are the cyclic shifts of the    *)
(* scores 1..C and of C..1 (every class takes every rank), with any        *)
(* labels.                                                                 *)
(***************************************************************************)
Rotation(C, k) == [c \in 1..C |-> ((c - 1 + k) % C) + 1]

ScoreRows(C) ==
    {Rotation(C, k) : k \in 0..(C - 1)} \cup {Reversed(Rotation(C, k)) : k \in 0..(C - 1)}

InitAcc ==
    /\ args = [model_input |-> <<"m">> \o DotOnnx, print_freq |-> 1]
    /\ loader_len = 1
    /\ pc = "accuracy"
    /\ error = "none"
    /\ graph = [kind |-> "path", path |-> args.model_input]
    /\ session = "open"
    /\ acquired = 1
    /\ released = 0
    /\ infer_calls = 1
    /\ infer_unheld = 0
    /\ yielded = 1
    /\ i = 0
    /\ \E C \in 1..MaxClasses, N \in RowCounts :
        /\ input = N
        /\ output \in [1..N -> ScoreRows(C)]
        /\ target \in [1..N -> 0..(C - 1)]
    /\ prec = NoPrec
    /\ clock = 2
    /\ start = 1
    /\ end = 0
    /\ elapsed_time = 1
    /\ total_predictions = 0
    /\ batch_time = AverageMeter
    /\ top1 = AverageMeter
    /\ top5 = AverageMeter
    /\ samples_seen = 0
    /\ hits = [h1 |-> 0, h5 |-> 0]
    /\ out = <<>>
    /\ line = NoLine
    /\ latency = NoLatency

NextAcc == Accuracy

SpecAcc == InitAcc /\ [][NextAcc]_vars

(***************************************************************************)
(* Properties                                                              *)
(***************************************************************************)
Printed(kind) == {k \in 1..Len(out) : out[k].kind = kind}

AfterLoop == pc \in {"summary", "latency", "done"}

\* C1: total_predictions counts batches, one per batch whatever its size:
\* at the head of every iteration it is the number of batches processed so
\* far, and once the loader is exhausted it is the number of batches the
\* loader yielded.
C1_TotalPredictionsCountsBatches ==
    /\ pc = "next" => total_predictions = yielded
    /\ AfterLoop => total_predictions = yielded /\ yielded = loader_len

\* a finished run of two batches holding three samples
C1_Witness ==
    /\ pc = "done"
    /\ total_predictions = 2
    /\ samples_seen = 3

\* C2: accuracy_np returns top1 = 100 * (rows whose best class is the
\* label) / N and top5 = 100 * (rows whose label is among the 5 best
\* classes) / N; all-correct rows give 100 and 100; five classes or fewer
\* give top5 = 100.
C2_AccuracyIsTopK ==
    pc = "record" =>
        LET N == Len(output)
            C == Len(output[1])
        IN  /\ REq(prec.top1, 100 * CountRows(output, target, IsBest), N)
            /\ REq(prec.top5, 100 * CountRows(output, target, InTop5), N)
            /\ (\A r \in 1..N : IsBest(output[r], target[r]))
                   => prec.top1 = Frac(100, 1) /\ prec.top5 = Frac(100, 1)
            /\ C <= 5 => prec.top5 = Frac(100, 1)

\* two rows of six classes: one label is the best class, the other is the
\* fifth best
C2_Witness ==
    /\ pc = "record"
    /\ Len(output) = 2
    /\ Len(output[1]) = 6
    /\ output[2][target[2] + 1] = 2
    /\ prec.top1 = Frac(50, 1)
    /\ prec.top5 = Frac(100, 1)

\* C3: top1 and top5 are averaged with the batch's sample count as weight,
\* batch_time with weight 1: the top1 (top5) average is the share of all
\* samples seen whose label is the best class (among the 5 best), and the
\* batch_time count is the number of batches.
C3_WeightedAverages ==
    /\ top1.count = samples_seen
    /\ top5.count = samples_seen
    /\ REq(top1.sum, 100 * hits.h1, 1)
    /\ REq(top5.sum, 100 * hits.h5, 1)
    /\ samples_seen > 0 =>
        /\ REq(top1.avg, 100 * hits.h1, samples_seen)
        /\ REq(top5.avg, 100 * hits.h5, samples_seen)
    /\ (pc = "next" \/ AfterLoop) => batch_time.count = yielded

\* two batches of unequal size: 1 of 3 samples is a top-1 hit, 2 of 3 are
\* top-5 hits
C3_Witness ==
    /\ pc = "done"
    /\ total_predictions = 2
    /\ samples_seen = 3
    /\ hits = [h1 |-> 1, h5 |-> 2]
    /\ top1.avg = Frac(100, 3)
    /\ top5.avg = Frac(200, 3)

Unsupported(path) == ~EndsWith(path, DotDfg) /\ ~EndsWith(path, DotOnnx)

\* C4: with a loader of zero batches the run ends at the latency
\* computation with an explicit "no batches processed" error, not with a
\* division fault.
C4_EmptyLoaderExplicitError ==
    (pc = "failed" /\ loader_len = 0 /\ Printed("summary") # {})
        => error = "no batches processed"

\* C5: a --model-input ending with neither .dfg nor .onnx ends the run with
\* an explicit "unsupported model format" error before a session is created.
C5_UnsupportedFormatExplicitError ==
    (Unsupported(args.model_input) /\ pc = "failed")
        => error = "unsupported model format" /\ acquired = 0

\* C6: the session is acquired once before the first batch, held during
\* every inference call, and released once on every way out of the loop,
\* the failing ones included; no inference call is made while it is not
\* held.
C6_SessionScoped ==
    /\ acquired <= 1
    /\ released <= acquired
    /\ session = "open" <=> (acquired = 1 /\ released = 0)
    /\ pc \in {"next", "infer", "accuracy", "record"} => session = "open"
    /\ infer_calls > 0 => acquired = 1
    /\ infer_unheld = 0
    /\ AfterLoop => released = 1
    /\ (pc = "failed" /\ acquired = 1) => released = 1

\* inference failed on the second batch and the session was released
C6_Witness ==
    /\ pc = "failed"
    /\ error = "InferError"
    /\ infer_calls = 2
    /\ acquired = 1
    /\ released = 1

\* C7: when inference or the loader fails on batch k the run ends there:
\* batch k and later update no meter or counter, no later batch is
\* inferred, and neither the summary nor the latency line is printed.
C7_FailurePropagates ==
    error \in {"InferError", "LoaderError"} =>
        LET k == IF error = "InferError" THEN yielded - 1 ELSE yielded
        IN  /\ pc = "failed"
            /\ ~ENABLED Next
            /\ infer_calls = yielded
            /\ total_predictions = k
            /\ batch_time.count = k
            /\ top1.count = samples_seen
            /\ top5.count = samples_seen
            /\ Printed("summary") = {}
            /\ Printed("latency") = {}
            /\ latency = NoLatency

\* inference failed on the second batch, after the first was reported
C7_Witness ==
    /\ pc = "failed"
    /\ error = "InferError"
    /\ i = 1
    /\ total_predictions = 1
    /\ Printed("progress") = {1}

\* C8: for print_freq >= 1 the progress lines are those of the batch
\* indices that are multiples of print_freq, one each and in order, and a
\* line carries the meters as updated for its batch.
C8_ProgressEveryPrintFreq ==
    args.print_freq >= 1 =>
        /\ {out[k].i : k \in Printed("progress")}
               = {j \in 0..(total_predictions - 1) : j % args.print_freq = 0}
        /\ \A k, l \in Printed("progress") : k < l => out[k].i < out[l].i
        /\ line.i >= 0 =>
            /\ line.batch_time.count = line.i + 1
            /\ line.i = out[CHOOSE k \in Printed("progress") :
                                \A l \in Printed("progress") : l <= k].i
        /\ (line.i >= 0 /\ line.i = total_predictions - 1) =>
            /\ line.batch_time = batch_time
            /\ line.top1 = top1
            /\ line.top5 = top5

\* print_freq 2, two batches: a line for batch 0 and none for batch 1
C8_Witness ==
    /\ pc = "done"
    /\ args.print_freq = 2
    /\ total_predictions = 2
    /\ out = <<[kind |-> "progress", i |-> 0], [kind |-> "summary", i |-> 1],
               [kind |-> "latency", i |-> 1]>>

\* C9: elapsed_time changes only across the inference call, by the time
\* that passed between the readings before and after it; the latency is
\* elapsed_time / total_predictions, printed divided by 1e6.
C9_StepOk ==
    /\ (pc = "infer" /\ pc' = "accuracy")
           => elapsed_time' = elapsed_time + (clock' - clock)
    /\ ~(pc = "infer" /\ pc' = "accuracy") => elapsed_time' = elapsed_time
    /\ pc' = "done" =>
        /\ REq(latency'.ns, elapsed_time', total_predictions')
        /\ REq(latency'.ms, elapsed_time', total_predictions' * 1000000)

C9_ElapsedOnlyInference == [][C9_StepOk]_vars

\* two batches: 3 ticks of inference within 5 ticks of wall time
C9_Witness ==
    /\ pc = "done"
    /\ total_predictions = 2
    /\ elapsed_time = 3
    /\ clock = 5
    /\ latency.ns = Frac(3, 2)

\* C10: in a progress line throughput is batch size / average batch time
\* and ms/sample is 1000 * average batch time / batch size, so that their
\* product is 1000.
C10_MsPerSample ==
    (line.i >= 0 /\ line.i = i) =>
        /\ REq(line.rate_avg, input * line.batch_time.avg.den, line.batch_time.avg.num)
        /\ REq(line.ms_avg, 1000 * line.batch_time.avg.num,
               line.batch_time.avg.den * input)
        /\ line.rate_avg.num * line.ms_avg.num
               = 1000 * line.rate_avg.den * line.ms_avg.den

====
